---------------------------- MODULE Spec2Model ----------------------------
(***************************************************************************)
(* A model of the concept-normalisation front end of the DL reasoner:      *)
(* the concept algebra and its NNF conversion (common.rs), the concept and *)
(* ABox-line parsers (common.rs, abox.rs) and the TBox pipeline (tbox.rs). *)
(*                                                                         *)
(* Text is a sequence of one-character strings, so that the parsers'       *)
(* slicing, trimming and scanning are modelled character by character.     *)
(* A Concept is a record [tag, name, subs]: tag is the variant, name the   *)
(* atomic name or the relation name (a text), subs the ordered children.   *)
(***************************************************************************)
EXTENDS Integers, Sequences, FiniteSets, TLC

VARIABLES
    c,                    \* concept algebra: the concept under conversion
    nnf1,                 \* convert_to_nnf(c), once called
    nnf2,                 \* convert_to_nnf(nnf1), once called
    text,                 \* parsers: the input text
    debug_assertions,     \* parsers: whether the build keeps debug_assert!
    parsed,               \* parse_concept(text), once called
    axiom,                \* parse_abox_axiom(text), once called
    pc,                   \* TBox pipeline: position of the caller
    tbox_lines,           \* the TBox source text, as the set of its lines
    axioms,               \* TBox.axioms
    abox,                 \* ABox.axioms
    definitions,          \* expand_all_definitions: the pending vector
    definitions_updated,  \* expand_all_definitions: the working vector
    applied_defs,         \* expand_all_definitions: lhs already applied
    iters,                \* expand_all_definitions: loop iterations so far
    inclusions,           \* apply_definitions_to_inclusions: its local vector
    aggregate             \* result of aggregate_inclusions

nnfVars == <<c, nnf1, nnf2>>
parserVars == <<text, debug_assertions, parsed, axiom>>
tboxVars == <<pc, tbox_lines, axioms, abox, definitions, definitions_updated,
              applied_defs, iters, inclusions, aggregate>>
vars == <<nnfVars, parserVars, tboxVars>>

---------------------------------------------------------------------------
(* Bounds of the model.                                                    *)

\* Deepest concept tree the concept-algebra specification builds.
MaxDepth == 3

\* Most lines of a TBox text.
MaxAxioms == 3

\* Most axioms of an ABox.
MaxABox == 1

---------------------------------------------------------------------------
(* Concept algebra: common.rs                                              *)

NoText == <<>>

Atomic(n) == [tag |-> "Atomic", name |-> n, subs |-> <<>>]
NotC(s) == [tag |-> "Not", name |-> NoText, subs |-> <<s>>]
AndC(ss) == [tag |-> "And", name |-> NoText, subs |-> ss]
OrC(ss) == [tag |-> "Or", name |-> NoText, subs |-> ss]
OnlyC(r, s) == [tag |-> "Only", name |-> r, subs |-> <<s>>]
SomeC(r, s) == [tag |-> "Some", name |-> r, subs |-> <<s>>]

\* The outcome of a panic (unimplemented!, unwrap on None, a slice or an
\* index out of range): the call does not return a value.
PANIC == [tag |-> "Panic", name |-> NoText, subs |-> <<>>]

\* Option::None, and "not called yet" for the result variables.
NoConcept == [tag |-> "None", name |-> NoText, subs |-> <<>>]

\* The ABox axioms (abox.rs), the outcome of a panic of their parser, and
\* "not called yet".
ConceptAxiom(cn, ind) ==
    [kind |-> "Concept", concept |-> cn, individual |-> ind]
RelationAxiom(rel, l, r) ==
    [kind |-> "Relation", relation |-> rel, lhs |-> l, rhs |-> r]
PanicAxiom == [kind |-> "Panic"]
NoAxiom == [kind |-> "None"]

\* A node built from children: a panic in the computation of any child
\* unwinds through the construction of the parent.
Build(tag, name, ss) ==
    IF \E i \in 1..Len(ss) : ss[i] = PANIC THEN PANIC
    ELSE [tag |-> tag, name |-> name, subs |-> ss]

negate(x) == NotC(x)

RECURSIVE convert_to_nnf(_)

\* Not(Atomic): the node is rebuilt unchanged.
nnf_not_atomic(sub) == NotC(sub)

\* Not(Not(x)): convert_to_nnf(x).
nnf_not_not(sub) == convert_to_nnf(sub.subs[1])

\* Variant: the negated children are not converted.
nnf_not_and_unconverted(sub) ==
    Build("Or", NoText, [i \in 1..Len(sub.subs) |-> negate(sub.subs[i])])

\* Not(And(xs)): Or(xs.map(negate).map(convert_to_nnf)).
nnf_not_and(sub) ==
    Build("Or", NoText,
          [i \in 1..Len(sub.subs) |-> convert_to_nnf(negate(sub.subs[i]))])

\* Not(Or(xs)): And(xs.map(Not).map(convert_to_nnf)).
nnf_not_or(sub) ==
    Build("And", NoText,
          [i \in 1..Len(sub.subs) |-> convert_to_nnf(NotC(sub.subs[i]))])

\* Variant: the negated body is not converted.
nnf_not_only_unconverted(sub) ==
    Build("Some", sub.name, <<negate(sub.subs[1])>>)

\* Not(Only(r, x)): Some(r, convert_to_nnf(negate(x))).
nnf_not_only(sub) ==
    Build("Some", sub.name, <<convert_to_nnf(negate(sub.subs[1]))>>)

\* Not(Some(r, x)): Only(r, convert_to_nnf(negate(x))).
nnf_not_some(sub) ==
    Build("Only", sub.name, <<convert_to_nnf(negate(sub.subs[1]))>>)

\* The dispatch of NotConcept::convert_to_nnf on the variant of its child,
\* in the order of the if/else-if chain, ending in unimplemented!().
nnf_not(sub) ==
    IF sub.tag = "Atomic" THEN nnf_not_atomic(sub)
    ELSE IF sub.tag = "Not" THEN nnf_not_not(sub)
    ELSE IF sub.tag = "And" THEN nnf_not_and(sub)
    ELSE IF sub.tag = "Or" THEN nnf_not_or(sub)
    ELSE IF sub.tag = "Only" THEN nnf_not_only(sub)
    ELSE IF sub.tag = "Some" THEN nnf_not_some(sub)
    ELSE PANIC

convert_to_nnf(x) ==
    CASE x.tag = "Atomic" -> x
      [] x.tag = "Not" -> nnf_not(x.subs[1])
      [] x.tag \in {"And", "Or"} ->
            Build(x.tag, NoText,
                  [i \in 1..Len(x.subs) |-> convert_to_nnf(x.subs[i])])
      [] x.tag \in {"Only", "Some"} ->
            Build(x.tag, x.name, <<convert_to_nnf(x.subs[1])>>)
      [] OTHER -> PANIC

RECURSIVE Depth(_)
Depth(x) ==
    IF Len(x.subs) = 0 THEN 0
    ELSE LET RECURSIVE MaxOf(_)
             MaxOf(i) == IF i = 0 THEN 0
                         ELSE LET d == Depth(x.subs[i])
                                  m == MaxOf(i - 1)
                              IN  IF d > m THEN d ELSE m
         IN  1 + MaxOf(Len(x.subs))

\* Whether y occurs in x as a structural subterm (x itself included).
RECURSIVE Subterm(_, _)
Subterm(y, x) ==
    \/ x = y
    \/ \E i \in 1..Len(x.subs) : Subterm(y, x.subs[i])

\* Every Not node of x has an Atomic concept as its direct child.
RECURSIVE IsNNF(_)
IsNNF(x) ==
    /\ x.tag \in {"Atomic", "Not", "And", "Or", "Only", "Some"}
    /\ x.tag = "Not" => x.subs[1].tag = "Atomic"
    /\ \A i \in 1..Len(x.subs) : IsNNF(x.subs[i])

---------------------------------------------------------------------------
(* The concept-algebra specification: a caller builds a Concept node by    *)
(* node from the six variants and converts it to NNF, twice.               *)

tA == <<"A">>
tB == <<"B">>
tC == <<"C">>
tD == <<"D">>
tr == <<"r">>
ts == <<"s">>

AtomNames == {tA, tB}
RelationNames == {tr, ts}

\* The siblings a caller puts beside the concept under construction.
Siblings == {Atomic(tA), NotC(Atomic(tB)), NotC(NotC(Atomic(tA)))}

NnfIdle == c = NoConcept /\ nnf1 = NoConcept /\ nnf2 = NoConcept
ParserIdle ==
    /\ text = NoText /\ debug_assertions = FALSE
    /\ parsed = NoConcept /\ axiom = NoAxiom
TBoxIdle ==
    /\ pc = "idle" /\ tbox_lines = {} /\ axioms = {} /\ abox = {}
    /\ definitions = <<>> /\ definitions_updated = <<>> /\ applied_defs = {}
    /\ iters = 0 /\ inclusions = <<>> /\ aggregate = NoConcept

NnfInit ==
    /\ c \in {Atomic(n) : n \in AtomNames}
    /\ nnf1 = NoConcept /\ nnf2 = NoConcept
    /\ ParserIdle /\ TBoxIdle

CanGrow == nnf1 = NoConcept /\ Depth(c) < MaxDepth

NewNot ==
    /\ CanGrow
    /\ c' = negate(c)
    /\ UNCHANGED <<nnf1, nnf2, parserVars, tboxVars>>

NewConjunction ==
    /\ CanGrow
    /\ \E ss \in {<<c>>} \cup {<<c, s>> : s \in Siblings}
                 \cup {<<s, c>> : s \in Siblings} : c' = AndC(ss)
    /\ UNCHANGED <<nnf1, nnf2, parserVars, tboxVars>>

NewDisjunction ==
    /\ CanGrow
    /\ \E ss \in {<<c>>} \cup {<<c, s>> : s \in Siblings}
                 \cup {<<s, c>> : s \in Siblings} : c' = OrC(ss)
    /\ UNCHANGED <<nnf1, nnf2, parserVars, tboxVars>>

NewOnly ==
    /\ CanGrow
    /\ \E r \in RelationNames : c' = OnlyC(r, c)
    /\ UNCHANGED <<nnf1, nnf2, parserVars, tboxVars>>

NewSome ==
    /\ CanGrow
    /\ \E r \in RelationNames : c' = SomeC(r, c)
    /\ UNCHANGED <<nnf1, nnf2, parserVars, tboxVars>>

\* c.convert_to_nnf()
ConvertToNnf ==
    /\ nnf1 = NoConcept
    /\ nnf1' = convert_to_nnf(c)
    /\ UNCHANGED <<c, nnf2, parserVars, tboxVars>>

\* c.convert_to_nnf().convert_to_nnf(): the second call runs only if the
\* first one returned.
ConvertToNnfAgain ==
    /\ nnf1 # NoConcept /\ nnf1 # PANIC /\ nnf2 = NoConcept
    /\ nnf2' = convert_to_nnf(nnf1)
    /\ UNCHANGED <<c, nnf1, parserVars, tboxVars>>

NnfNext ==
    \/ NewNot
    \/ NewConjunction
    \/ NewDisjunction
    \/ NewOnly
    \/ NewSome
    \/ ConvertToNnf
    \/ ConvertToNnfAgain

NnfSpec == NnfInit /\ [][NnfNext]_vars

\* C6: for every concept built from Atomic, Not, And, Or, Only and Some,
\* convert_to_nnf returns (it does not reach the unsupported-input branch)
\* and in its result every Not node has an Atomic concept as direct child.
C6_NnfTotalAndNormal ==
    nnf1 # NoConcept => (nnf1 # PANIC /\ IsNNF(nnf1))

\* A converted concept that had a Not over a non-atomic child.
C6_Witness ==
    /\ nnf1 # NoConcept /\ nnf1 # PANIC
    /\ ~IsNNF(c) /\ Depth(c) = MaxDepth

\* C7: convert_to_nnf is idempotent: converting the result of a conversion
\* again returns a structurally equal concept (same variants, same relation
\* names, same order of children).
C7_NnfIdempotent ==
    nnf2 # NoConcept => nnf2 = nnf1

\* A second conversion of a concept whose first conversion changed it.
C7_Witness ==
    /\ nnf2 # NoConcept /\ nnf2 # PANIC
    /\ nnf1 # c /\ Depth(c) = MaxDepth

---------------------------------------------------------------------------
(* Text: the operations of str the parsers use.                            *)

WhiteSpace == {" "}

\* &s[a..b]: zero-based, b exclusive.  The callers guard a <= b <= Len(s),
\* outside which the slice panics.
Slice(s, a, b) == SubSeq(s, a + 1, b)

SliceOk(s, a, b) == a <= b /\ b <= Len(s)

RECURSIVE trim_start(_)
trim_start(s) ==
    IF Len(s) > 0 /\ s[1] \in WhiteSpace THEN trim_start(Tail(s)) ELSE s

RECURSIVE trim_end(_)
trim_end(s) ==
    IF Len(s) > 0 /\ s[Len(s)] \in WhiteSpace
    THEN trim_end(SubSeq(s, 1, Len(s) - 1)) ELSE s

trim(s) == trim_end(trim_start(s))

starts_with(s, p) == Len(s) >= Len(p) /\ SubSeq(s, 1, Len(p)) = p

\* str::find: the zero-based index of the first occurrence of p, -1 for None.
find(s, p) ==
    LET hits == {i \in 0..(Len(s) - Len(p)) : SubSeq(s, i + 1, i + Len(p)) = p}
    IN  IF hits = {} THEN -1 ELSE CHOOSE i \in hits : \A j \in hits : i <= j

contains(s, p) == find(s, p) # -1

\* str::split on a one-character separator: always at least one piece.
RECURSIVE split(_, _)
split(s, sep) ==
    LET i == find(s, sep)
    IN  IF i = -1 THEN <<s>>
        ELSE <<Slice(s, 0, i)>> \o split(Slice(s, i + 1, Len(s)), sep)

---------------------------------------------------------------------------
(* Expression parser: common.rs                                            *)

kw_and == <<"a", "n", "d">>
kw_or == <<"o", "r">>
kw_only == <<"o", "n", "l", "y">>
kw_some == <<"s", "o", "m", "e">>
kw_not == <<"n", "o", "t">>

RECURSIVE parse_concept(_, _)
RECURSIVE extract_concepts(_, _)

\* The while loop of extract_concepts over t, at index i with the depth,
\* the start of the current concept and the concepts pushed so far.
RECURSIVE scan_siblings(_, _, _, _, _, _)
scan_siblings(t, i, curr_depth, curr_concept_start_idx, concepts, dbg) ==
    IF ~(i < Len(t)) THEN concepts
    ELSE LET ch == t[i + 1]
             depth == IF ch = "(" THEN curr_depth + 1
                      ELSE IF ch = ")" THEN curr_depth - 1
                      ELSE curr_depth
         IN  IF depth = 0
             THEN scan_siblings(t, i + 2, depth, i + 1,
                      Append(concepts,
                             parse_concept(
                                 Slice(t, curr_concept_start_idx, i + 1), dbg)),
                      dbg)
             ELSE scan_siblings(t, i + 1, depth, curr_concept_start_idx,
                                concepts, dbg)

\* The vector extract_concepts returns; a PANIC element stands for a panic
\* of the call (of a nested parse_concept, or of the debug_assert! that the
\* vector is not empty, which only a debug build keeps).
extract_concepts(s, dbg) ==
    LET concepts == scan_siblings(trim(s), 0, 0, 0, <<>>, dbg)
    IN  IF dbg /\ Len(concepts) = 0 THEN <<PANIC>> ELSE concepts

\* The body of an only/some branch: the relation is the character at index
\* 5, the subconcept the parse of the text from index 6.
parse_restriction(tag, t, dbg) ==
    IF Len(t) <= 5 THEN PANIC
    ELSE Build(tag, <<t[6]>>, <<parse_concept(Slice(t, 6, Len(t)), dbg)>>)

parse_concept(s, dbg) ==
    LET t == trim(s)
    IN  IF ~SliceOk(t, 0, 1) THEN PANIC
        ELSE IF Slice(t, 0, 1) = <<"(">>
        THEN IF ~SliceOk(t, 1, Len(t) - 1) THEN PANIC
             ELSE parse_concept(Slice(t, 1, Len(t) - 1), dbg)
        ELSE IF Len(t) > 3 /\ Slice(t, 0, 3) = kw_and THEN
            Build("And", NoText, extract_concepts(Slice(t, 3, Len(t)), dbg))
        ELSE IF Len(t) > 2 /\ Slice(t, 0, 2) = kw_or THEN
            Build("Or", NoText, extract_concepts(Slice(t, 2, Len(t)), dbg))
        ELSE IF Len(t) > 4 /\ Slice(t, 0, 4) = kw_only THEN
            parse_restriction("Only", t, dbg)
        ELSE IF Len(t) > 4 /\ Slice(t, 0, 4) = kw_some THEN
            parse_restriction("Some", t, dbg)
        ELSE IF Len(t) > 3 /\ Slice(t, 0, 3) = kw_not THEN
            Build("Not", NoText, <<parse_concept(Slice(t, 3, Len(t)), dbg)>>)
        ELSE Atomic(t)

---------------------------------------------------------------------------
(* The parser of ABox lines: abox.rs                                         *)

\* Vec::remove(i): the element at zero-based i and the vector without it;
\* it panics when i is not an index of the vector.
VecRemoveOk(v, i) == i < Len(v)
VecRemoveItem(v, i) == v[i + 1]
VecRemoveRest(v, i) == SubSeq(v, 1, i) \o SubSeq(v, i + 2, Len(v))

\* The argument text of an ABox line: the slice from the index of "[" to
\* the index of "]" plus one, trimmed.
arguments_of(t, start_idx, end_idx) == trim(Slice(t, start_idx, end_idx + 1))

parse_abox_axiom(s, dbg) ==
    LET t == trim(s)
        start_idx == IF find(t, <<"[">>) = -1 THEN 0 ELSE find(t, <<"[">>)
        end_idx == IF find(t, <<"]">>) = -1 THEN Len(t) ELSE find(t, <<"]">>)
    IN  IF ~SliceOk(t, start_idx, end_idx + 1) THEN PanicAxiom
        ELSE
        LET arguments_str == arguments_of(t, start_idx, end_idx)
            individuals == split(arguments_str, <<",">>)
        IN  IF contains(arguments_str, <<",">>)
            THEN \* lhs: individuals.remove(0), then rhs: individuals.remove(1)
                 LET rest == VecRemoveRest(individuals, 0)
                 IN  IF ~VecRemoveOk(individuals, 0) \/ ~VecRemoveOk(rest, 1)
                     THEN PanicAxiom
                     ELSE RelationAxiom(Slice(t, 0, start_idx),
                                        VecRemoveItem(individuals, 0),
                                        VecRemoveItem(rest, 1))
            ELSE LET cn == parse_concept(Slice(t, 0, start_idx), dbg)
                 IN  IF cn = PANIC \/ ~VecRemoveOk(individuals, 0)
                     THEN PanicAxiom
                     ELSE ConceptAxiom(cn, VecRemoveItem(individuals, 0))

---------------------------------------------------------------------------
(* The parser specification: a caller hands a text to parse_concept and to *)
(* parse_abox_axiom.                                                       *)

\* The text of a concept in the grammar of the concept language:
\* atomic | not concept | and (concept ...) | or (concept ...)
\* | only r concept | some r concept, a compound sibling in parentheses.
RECURSIVE GrammarText(_)
RECURSIVE GrammarSiblings(_, _)

Parenthesized(s) == <<"(">> \o s \o <<")">>

GrammarChild(x) ==
    IF x.tag = "Atomic" THEN GrammarText(x) ELSE Parenthesized(GrammarText(x))

GrammarSiblings(ss, i) ==
    IF i > Len(ss) THEN NoText
    ELSE (IF i > 1 THEN <<" ">> ELSE NoText)
         \o GrammarChild(ss[i]) \o GrammarSiblings(ss, i + 1)

GrammarText(x) ==
    CASE x.tag = "Atomic" -> x.name
      [] x.tag = "Not" -> kw_not \o <<" ">> \o GrammarChild(x.subs[1])
      [] x.tag = "And" ->
            kw_and \o <<" ">> \o Parenthesized(GrammarSiblings(x.subs, 1))
      [] x.tag = "Or" ->
            kw_or \o <<" ">> \o Parenthesized(GrammarSiblings(x.subs, 1))
      [] x.tag = "Only" ->
            kw_only \o <<" ">> \o x.name \o <<" ">> \o GrammarChild(x.subs[1])
      [] x.tag = "Some" ->
            kw_some \o <<" ">> \o x.name \o <<" ">> \o GrammarChild(x.subs[1])

\* The siblings of the and/or lists handed to the parser.
SiblingPool ==
    {Atomic(tC), Atomic(tD), NotC(Atomic(tC)),
     AndC(<<Atomic(tC), Atomic(tD)>>), SomeC(tr, Atomic(tD))}

\* Most siblings of one and/or list.
MaxSiblings == 2

SiblingLists ==
    UNION {[1..n -> SiblingPool] : n \in 1..MaxSiblings}

\* The and/or concepts whose grammar text is parsed.
ListConcepts ==
    {AndC(ss) : ss \in SiblingLists} \cup {OrC(ss) : ss \in SiblingLists}

\* "(and C D)"
txt_and_C_D ==
    <<"(", "a", "n", "d", " ", "C", " ", "D", ")">>

\* "(or (not C) D)"
txt_or_notC_D ==
    <<"(", "o", "r", " ", "(", "n", "o", "t", " ", "C", ")", " ", "D", ")">>

\* "and (Cat Dog)"
txt_and_Cat_Dog ==
    <<"a", "n", "d", " ", "(", "C", "a", "t", " ", "D", "o", "g", ")">>

\* "only r (not C)"
txt_only_r_notC ==
    <<"o", "n", "l", "y", " ", "r", " ", "(", "n", "o", "t", " ", "C", ")">>

\* "and ("
txt_and_open ==
    <<"a", "n", "d", " ", "(">>

ConceptTexts ==
    {GrammarText(x) : x \in ListConcepts}
    \cup {Parenthesized(GrammarText(x)) : x \in ListConcepts}
    \cup {txt_and_C_D, txt_or_notC_D, txt_and_Cat_Dog, txt_only_r_notC,
          txt_and_open}

ind_a == <<"a">>
ind_b == <<"b">>

IndividualNames == {ind_a, ind_b}

\* The predicates of the ABox lines: concepts and relation names.
Predicates ==
    {tC, tr, Parenthesized(GrammarText(NotC(Atomic(tC)))),
     Parenthesized(GrammarText(SomeC(tr, Atomic(tC)))),
     Parenthesized(GrammarText(AndC(<<Atomic(tC), Atomic(tD)>>)))}

\* "p[a]" and "p[a,b]"
Line1(p, x) == p \o <<"[">> \o x \o <<"]">>
Line2(p, x, y) == p \o <<"[">> \o x \o <<",">> \o y \o <<"]">>

ABoxLines ==
    {Line1(p, x) : p \in Predicates, x \in IndividualNames}
    \cup {Line2(p[1], p[2], p[3]) :
            p \in Predicates \X IndividualNames \X IndividualNames}

ParserInit ==
    /\ text \in ConceptTexts \cup ABoxLines
    /\ debug_assertions \in BOOLEAN
    /\ parsed = NoConcept /\ axiom = NoAxiom
    /\ NnfIdle /\ TBoxIdle

\* parse_concept(text)
ParseConcept ==
    /\ parsed = NoConcept
    /\ parsed' = parse_concept(text, debug_assertions)
    /\ UNCHANGED <<text, debug_assertions, axiom, nnfVars, tboxVars>>

\* parse_abox_axiom(text)
ParseABoxAxiom ==
    /\ axiom = NoAxiom
    /\ axiom' = parse_abox_axiom(text, debug_assertions)
    /\ UNCHANGED <<text, debug_assertions, parsed, nnfVars, tboxVars>>

ParserNext ==
    \/ ParseConcept
    \/ ParseABoxAxiom

ParserSpec == ParserInit /\ [][ParserNext]_vars

\* C8: parse_concept on the text "and (c1 ... cn)" (likewise "or (...)"),
\* n >= 1, bare or in parentheses, returns And (resp. Or) whose subconcepts
\* are, in order, exactly the n parses of c1..cn; "(and (C D))" parses to
\* And([Atomic(C), Atomic(D)]).
C8_SiblingsParsedInOrder ==
    /\ \A x \in ListConcepts :
        (parsed # NoConcept
            /\ text \in {GrammarText(x), Parenthesized(GrammarText(x))})
        => parsed = [tag |-> x.tag, name |-> NoText,
                     subs |-> [i \in 1..Len(x.subs) |->
                        parse_concept(GrammarChild(x.subs[i]),
                                      debug_assertions)]]
    /\ (parsed # NoConcept
            /\ text = Parenthesized(GrammarText(AndC(<<Atomic(tC), Atomic(tD)>>))))
        => parsed = AndC(<<Atomic(tC), Atomic(tD)>>)

\* C9: parse_abox_axiom returns, for "p[a]", the ConceptAxiom of
\* parse_concept(p) and the individual a, and for "p[a,b]" the RelationAxiom
\* of the relation p and the individuals a and b, without failing.
C9_ABoxLineClassified ==
    /\ \A p \in Predicates, x \in IndividualNames :
        (axiom # NoAxiom /\ text = Line1(p, x))
        => axiom = ConceptAxiom(parse_concept(p, debug_assertions), x)
    /\ \A p \in Predicates, x \in IndividualNames, y \in IndividualNames :
        (axiom # NoAxiom /\ text = Line2(p, x, y))
        => axiom = RelationAxiom(p, x, y)

---------------------------------------------------------------------------
(* TBox: tbox.rs                                                           *)

TBoxAxiom(type, l, r) == [axiom_type |-> type, lhs |-> l, rhs |-> r]

\* The outcome of a panic of parse_tbox_axiom.
PanicTBoxAxiom == TBoxAxiom("Panic", PANIC, PANIC)

delim_def == <<"=", "=">>
delim_incl == <<"-", ">">>

parse_tbox_axiom(tbox_line, dbg) ==
    LET t == trim(tbox_line)
        delimiter == IF contains(t, delim_def) THEN delim_def ELSE delim_incl
        axiom_type == IF delimiter = delim_def THEN "Definition"
                      ELSE "Inclusion"
        delimiter_idx == find(t, delimiter)
    IN  IF delimiter_idx = -1 THEN PanicTBoxAxiom
        ELSE LET l == convert_to_nnf(
                          parse_concept(Slice(t, 0, delimiter_idx), dbg))
                 r == convert_to_nnf(
                          parse_concept(Slice(t, delimiter_idx + 2, Len(t)),
                                        dbg))
             IN  IF l = PANIC \/ r = PANIC THEN PanicTBoxAxiom
                 ELSE TBoxAxiom(axiom_type, l, r)

\* The axiom set parse_tbox builds from the lines of a text: empty lines
\* and lines starting with '#' are skipped, and the set keeps one axiom per
\* canonical form.
parse_tbox(lines, dbg) ==
    {parse_tbox_axiom(l, dbg) :
        l \in {m \in lines : Len(m) > 0 /\ ~starts_with(m, <<"#">>)}}

Definitions(ax) == {a \in ax : a.axiom_type = "Definition"}
Inclusions(ax) == {a \in ax : a.axiom_type = "Inclusion"}

\* The orders in which an iteration over a HashSet can yield its elements.
IterationOrders(S) ==
    {f \in [1..Cardinality(S) -> S] : \A x \in S : \E i \in DOMAIN f : f[i] = x}

\* Structural substitution: every subtree equal to old becomes new, the
\* other nodes are rebuilt over their substituted children.
RECURSIVE replace_concept(_, _, _)
replace_concept(target, old, new) ==
    IF target = old THEN new
    ELSE [target EXCEPT !.subs =
            [i \in 1..Len(target.subs) |->
                replace_concept(target.subs[i], old, new)]]

\* The closure mapped over definitions_updated for the popped def: a
\* definition with def's lhs is kept, any other has def.lhs replaced by
\* def.rhs in its rhs.
expand_in(def, d) ==
    IF def.lhs = d.lhs THEN d
    ELSE TBoxAxiom(d.axiom_type, d.lhs,
                   replace_concept(d.rhs, def.lhs, def.rhs))

\* Variant: the filter keeps the applied definitions.
pending_of_applied(updated, applied) ==
    SelectSeq(updated, LAMBDA d : d.lhs \in applied)

\* Variant: no filter.
pending_of_all(updated, applied) == updated

\* The new pending vector: the updated definitions whose lhs is not applied.
pending_of(updated, applied) ==
    SelectSeq(updated, LAMBDA d : d.lhs \notin applied)

\* The fold of the definitions, in their order, over a concept.
RECURSIVE fold_definitions(_, _, _)
fold_definitions(x, defs, i) ==
    IF i > Len(defs) THEN x
    ELSE fold_definitions(replace_concept(x, defs[i].lhs, defs[i].rhs),
                          defs, i + 1)

\* The axioms apply_definitions_to_abox stores in the ABox.
abox_with_definitions(ab, defs) ==
    {IF a.kind = "Relation" THEN a
     ELSE ConceptAxiom(fold_definitions(a.concept, defs, 1), a.individual) :
        a \in ab}

\* The local vector of apply_definitions_to_inclusions after its loops.
inclusions_with_definitions(incls, defs) ==
    [i \in 1..Len(incls) |->
        TBoxAxiom(incls[i].axiom_type,
                  fold_definitions(incls[i].lhs, defs, 1),
                  fold_definitions(incls[i].rhs, defs, 1))]

\* Variant: the negated lhs is not converted.
gci_disjunct_unconverted(ta) == OrC(<<negate(ta.lhs), ta.rhs>>)

\* The disjunction aggregate_inclusions builds for one inclusion.
gci_disjunct(ta) == OrC(<<convert_to_nnf(negate(ta.lhs)), ta.rhs>>)

\* The result of aggregate_inclusions for the inclusions in the order the
\* set yields them: None for no inclusion.
aggregate_inclusions(incls) ==
    IF Len(incls) = 0 THEN NoConcept
    ELSE AndC([i \in 1..Len(incls) |-> gci_disjunct(incls[i])])

---------------------------------------------------------------------------
(* The TBox specification: the pipeline parse_tbox ->                      *)
(* expand_all_definitions -> apply_definitions_to_inclusions ->            *)
(* apply_definitions_to_abox -> aggregate_inclusions.                      *)

\* "A == B"
line_A_def_B ==
    <<"A", " ", "=", "=", " ", "B">>

\* "B == C"
line_B_def_C ==
    <<"B", " ", "=", "=", " ", "C">>

\* "A == (or B C)"
line_A_def_or_B_C ==
    <<"A", " ", "=", "=", " ", "(", "o", "r", " ", "B", " ", "C", ")">>

\* "A == (and B C)"
line_A_def_and_B_C ==
    <<"A", " ", "=", "=", " ", "(", "a", "n", "d", " ", "B", " ", "C", ")">>

\* "B == A"
line_B_def_A ==
    <<"B", " ", "=", "=", " ", "A">>

\* "A == C"
line_A_def_C ==
    <<"A", " ", "=", "=", " ", "C">>

\* "C == (some r D)"
line_C_def_some_r_D ==
    <<"C", " ", "=", "=", " ", "(", "s", "o", "m", "e", " ", "r", " ", "D", ")">>

\* "A -> D"
line_A_incl_D ==
    <<"A", " ", "-", ">", " ", "D">>

\* "(not B) -> (only r A)"
line_notB_incl_only_r_A ==
    <<"(", "n", "o", "t", " ", "B", ")", " ", "-", ">", " ",
      "(", "o", "n", "l", "y", " ", "r", " ", "A", ")">>

\* "# roles"
line_comment ==
    <<"#", " ", "r", "o", "l", "e", "s">>

TBoxLines ==
    {line_A_def_B, line_B_def_C, line_A_def_or_B_C, line_A_def_and_B_C,
     line_B_def_A, line_A_def_C, line_C_def_some_r_D, line_A_incl_D,
     line_notB_incl_only_r_A, line_comment}

tx == <<"x">>
ty == <<"y">>

ABoxAxioms ==
    {ConceptAxiom(Atomic(tA), tx),
     ConceptAxiom(AndC(<<Atomic(tB), NotC(Atomic(tA))>>), tx),
     ConceptAxiom(SomeC(tr, Atomic(tC)), ty),
     RelationAxiom(tr, tx, ty)}

\* The loop of expand_all_definitions is cut off after this many iterations.
MaxIters == MaxAxioms + 2

\* The state after parse_tbox.  None of the lines reaches the debug_assert!
\* of extract_concepts, so the kind of build makes no difference here.
TBoxInit ==
    /\ NnfIdle /\ ParserIdle
    /\ pc = "parsed"
    /\ tbox_lines \in {L \in SUBSET TBoxLines : Cardinality(L) <= MaxAxioms}
    /\ axioms = parse_tbox(tbox_lines, debug_assertions)
    /\ abox \in {X \in SUBSET ABoxAxioms : Cardinality(X) <= MaxABox}
    /\ definitions = <<>> /\ definitions_updated = <<>> /\ applied_defs = {}
    /\ iters = 0 /\ inclusions = <<>> /\ aggregate = NoConcept

\* expand_all_definitions, up to its loop: the definitions are collected
\* from the set in the order its iteration yields them.
ExpandBegin ==
    /\ pc = "parsed"
    /\ \E order \in IterationOrders(Definitions(axioms)) :
        /\ definitions' = order
        /\ definitions_updated' = order
    /\ applied_defs' = {}
    /\ iters' = 0
    /\ pc' = "expanding"
    /\ UNCHANGED <<tbox_lines, axioms, abox, inclusions, aggregate,
                   nnfVars, parserVars>>

\* One iteration of the while loop: definitions.pop() returned Some(def).
ExpandIterate ==
    /\ pc = "expanding"
    /\ Len(definitions) > 0
    /\ iters < MaxIters
    /\ LET def == definitions[Len(definitions)]
           applied == applied_defs \cup {def.lhs}
           updated == [i \in 1..Len(definitions_updated) |->
                          expand_in(def, definitions_updated[i])]
       IN  /\ applied_defs' = applied
           /\ definitions_updated' = updated
           /\ definitions' = pending_of(updated, applied)
    /\ iters' = iters + 1
    /\ UNCHANGED <<pc, tbox_lines, axioms, abox, inclusions, aggregate,
                   nnfVars, parserVars>>

\* definitions.pop() returned None: expand_all_definitions returns.  Its
\* locals are dropped; the model keeps their last values.
ExpandReturn ==
    /\ pc = "expanding"
    /\ Len(definitions) = 0
    /\ pc' = "expanded"
    /\ UNCHANGED <<tbox_lines, axioms, abox, definitions, definitions_updated,
                   applied_defs, iters, inclusions, aggregate,
                   nnfVars, parserVars>>

\* apply_definitions_to_inclusions: the rewritten inclusions are a local
\* vector, whose value at the return the model keeps.
ApplyDefinitionsToInclusions ==
    /\ pc = "expanded"
    /\ \E defs \in IterationOrders(Definitions(axioms)),
          incls \in IterationOrders(Inclusions(axioms)) :
        inclusions' = inclusions_with_definitions(incls, defs)
    /\ pc' = "inclusions_applied"
    /\ UNCHANGED <<tbox_lines, axioms, abox, definitions, definitions_updated,
                   applied_defs, iters, aggregate, nnfVars, parserVars>>

\* apply_definitions_to_abox
ApplyDefinitionsToABox ==
    /\ pc = "inclusions_applied"
    /\ \E defs \in IterationOrders(Definitions(axioms)) :
        abox' = abox_with_definitions(abox, defs)
    /\ pc' = "abox_applied"
    /\ UNCHANGED <<tbox_lines, axioms, definitions, definitions_updated,
                   applied_defs, iters, inclusions, aggregate,
                   nnfVars, parserVars>>

\* aggregate_inclusions
AggregateInclusions ==
    /\ pc = "abox_applied"
    /\ \E incls \in IterationOrders(Inclusions(axioms)) :
        aggregate' = aggregate_inclusions(incls)
    /\ pc' = "aggregated"
    /\ UNCHANGED <<tbox_lines, axioms, abox, definitions, definitions_updated,
                   applied_defs, iters, inclusions, nnfVars, parserVars>>

TBoxNext ==
    \/ ExpandBegin
    \/ ExpandIterate
    \/ ExpandReturn
    \/ ApplyDefinitionsToInclusions
    \/ ApplyDefinitionsToABox
    \/ AggregateInclusions

TBoxSpec == TBoxInit /\ [][TBoxNext]_vars

\* The pipeline is one thread of a synchronous program: a step that can be
\* taken is taken.
TBoxFairSpec == TBoxSpec /\ WF_vars(TBoxNext)

\* d depends on e: the lhs of e occurs in the rhs of d.
DependsOn(d, e) == Subterm(e.lhs, d.rhs)

\* The definitions have no cycle of dependencies.
RECURSIVE Acyclic(_)
Acyclic(S) ==
    \/ S = {}
    \/ \E d \in S : (\A e \in S : ~DependsOn(d, e)) /\ Acyclic(S \ {d})

Expanded == pc \in {"expanded", "inclusions_applied", "abox_applied", "aggregated"}

\* C1: for a TBox whose definitions are acyclic, once expand_all_definitions
\* has returned no Definition axiom held by the TBox has a rhs that contains
\* the lhs of another Definition axiom of the TBox as a subterm.
C1_DefinitionsExpanded ==
    (Expanded /\ Acyclic(Definitions(axioms)))
    => \A d \in Definitions(axioms), e \in Definitions(axioms) :
            d # e => ~Subterm(e.lhs, d.rhs)

\* The inclusion (or B C) -> D.
incl_or_B_C_D ==
    TBoxAxiom("Inclusion", OrC(<<Atomic(tB), Atomic(tC)>>), Atomic(tD))

\* C2: after parse_tbox, expand_all_definitions and
\* apply_definitions_to_inclusions, no Inclusion axiom held by the TBox
\* contains the lhs of a definition in its lhs or rhs; for the TBox
\* {A == (or B C), A -> D} the inclusion held is (or B C) -> D and
\* aggregate_inclusions is built from it.
C2_InclusionsRewritten ==
    /\ (pc \in {"inclusions_applied", "abox_applied", "aggregated"}
            /\ Acyclic(Definitions(axioms)))
        => \A a \in Inclusions(axioms), d \in Definitions(axioms) :
                ~Subterm(d.lhs, a.lhs) /\ ~Subterm(d.lhs, a.rhs)
    /\ (pc \in {"inclusions_applied", "abox_applied", "aggregated"}
            /\ tbox_lines = {line_A_def_or_B_C, line_A_incl_D})
        => Inclusions(axioms) = {incl_or_B_C_D}
    /\ (pc = "aggregated" /\ tbox_lines = {line_A_def_or_B_C, line_A_incl_D})
        => aggregate = AndC(<<gci_disjunct(incl_or_B_C_D)>>)

\* C3: for a TBox with acyclic definitions on which expand_all_definitions
\* has been run, after apply_definitions_to_abox no ConceptAxiom of the ABox
\* has a concept that contains the lhs of a Definition axiom as a subterm,
\* whatever the order in which the definitions are folded.
C3_ABoxDefinitionFree ==
    (pc \in {"abox_applied", "aggregated"} /\ Acyclic(Definitions(axioms)))
    => \A a \in abox : a.kind = "Concept" =>
            \A d \in Definitions(axioms) : ~Subterm(d.lhs, a.concept)

\* C4: for acyclic definitions the expansion loop ends within |definitions|
\* iterations: every iteration takes at least one definition out of pending
\* for good, and no definition whose lhs is marked applied is pending.
C4_ExpansionLoopBounded ==
    (pc # "parsed" /\ Acyclic(Definitions(axioms)))
    => /\ iters + Len(definitions) <= Len(definitions_updated)
       /\ iters <= Cardinality(Definitions(axioms))
       /\ \A i \in 1..Len(definitions) : definitions[i].lhs \notin applied_defs
       /\ Expanded => Len(definitions) = 0

\* The loop has run once per definition of an acyclic chain and returned.
C4_Witness ==
    /\ pc = "expanded"
    /\ Acyclic(Definitions(axioms))
    /\ iters = Cardinality(Definitions(axioms))
    /\ iters >= 2
    /\ \E d \in Definitions(axioms) :
        \E i \in 1..Len(definitions_updated) :
            /\ definitions_updated[i].lhs = d.lhs
            /\ definitions_updated[i].rhs # d.rhs

\* The step of aggregate_inclusions.
AggregateStep == pc = "abox_applied" /\ pc' = "aggregated"

\* C5: aggregate_inclusions returns no concept exactly when the TBox holds
\* no Inclusion axiom; otherwise it returns And(ds) with exactly one element
\* Or([convert_to_nnf(Not(lhs)), rhs]) per Inclusion axiom lhs -> rhs;
\* Definition axioms contribute nothing and the TBox is left unchanged.
C5_AggregationShape ==
    [][AggregateStep =>
        /\ axioms' = axioms
        /\ (aggregate' = NoConcept) <=> (Inclusions(axioms) = {})
        /\ Inclusions(axioms) # {} =>
            /\ aggregate'.tag = "And"
            /\ Len(aggregate'.subs) = Cardinality(Inclusions(axioms))
            /\ \A a \in Inclusions(axioms) :
                \E i \in 1..Len(aggregate'.subs) :
                    aggregate'.subs[i] =
                        OrC(<<convert_to_nnf(NotC(a.lhs)), a.rhs>>)
            /\ \A i \in 1..Len(aggregate'.subs) :
                \E a \in Inclusions(axioms) :
                    aggregate'.subs[i] =
                        OrC(<<convert_to_nnf(NotC(a.lhs)), a.rhs>>)
      ]_vars

\* An aggregate of two inclusions, one with a negated lhs, of a TBox that
\* also holds a definition.
C5_Witness ==
    /\ pc = "aggregated"
    /\ aggregate # NoConcept
    /\ Len(aggregate.subs) = 2
    /\ Definitions(axioms) # {}

\* C10: expand_all_definitions never loops forever: for every set of
\* Definition axioms, cyclic ones and ones with a shared lhs included, the
\* pending vector is empty after at most |definitions| iterations and the
\* operation returns.
C10_ExpansionTerminates ==
    <>(/\ pc = "expanded"
       /\ Len(definitions) = 0
       /\ iters <= Cardinality(Definitions(axioms)))

\* The expansion of a cyclic set of definitions has returned.
C10_Witness ==
    /\ pc = "expanded"
    /\ ~Acyclic(Definitions(axioms))
    /\ Cardinality(Definitions(axioms)) >= 2
    /\ iters <= Cardinality(Definitions(axioms))

=============================================================================
